---- MODULE Spec2Model ----
(***************************************************************************)
(* Model of the two dashboard pages of haxball-league-dashboard-bff:       *)
(*   pages_experimental/6_Database_operations.py  (spreadsheet import)     *)
(*   pages_experimental/4_Statistics.py           (statistics pipeline)    *)
(***************************************************************************)
EXTENDS Integers, Sequences, FiniteSets, TLC

VARIABLES
    \* ---- session state shared by the pages
    session_db,             \* st.session_state["db"]: a handle, NoHandle if absent
    authentication_status,  \* st.session_state["authentication_status"]
    init_connection_calls,  \* calls of init_connection made in the session
    \* ---- database operations page
    db,                     \* the league tables, one set of rows per table
    on_delete_cascade,      \* referential action of the schema (not in the pages)
    excel_file,             \* the uploaded workbook
    pc,                     \* position inside treat_excel_file, "idle" outside
    season,                 \* local `season` of treat_excel_file (its id)
    attempted,              \* steps entered by the current run, in order
    completed,              \* steps of the current run that returned normally
    error_shown,            \* st.error message of the current run
    clear_calls,            \* calls of clear_league_db made by the current run
    success,                \* return value of treat_excel_file
    page,                   \* what the last rerun of the page rendered
    imports,                \* runs of treat_excel_file started so far
    admin_actions,          \* admin actions executed by the current run
    \* ---- statistics page
    matches_list,           \* get_matches(db)
    teams_list,             \* get_teams(db)
    players_list,           \* get_players(db)
    div_select,             \* the division selectbox (None for "All")
    team_name_select,       \* the team selectbox
    slider_input,           \* the user's slider range, <<>> while untouched
    stats_pc,               \* position inside main() of the statistics page
    md_dict_max,            \* md_dict of get_max_matchday_stats
    md_dict_filter,         \* md_dict of filter_matches
    matchday_max,           \* main: matchday_max
    matchdays_select,       \* main: matchdays_select
    match_list_filter,      \* main: match_list_filter
    stats_players,          \* main: stats_players
    missing_called,         \* show_missing_stats was invoked by this rerun
    missing_shown,          \* the lines written by show_missing_stats
    \* ---- display transform
    stat, normalized, gametime,   \* arguments of treat_stat
    display_pc,             \* "start" before treat_stat is applied
    treated                 \* its result, a fraction num/den

dbVars == <<db, on_delete_cascade, excel_file, pc, season, attempted,
            completed, error_shown, clear_calls, success, page, imports,
            admin_actions>>
sessionVars == <<session_db, authentication_status, init_connection_calls>>
statsVars == <<matches_list, teams_list, players_list, div_select,
               team_name_select, slider_input, stats_pc, md_dict_max,
               md_dict_filter, matchday_max, matchdays_select,
               match_list_filter, stats_players, missing_called, missing_shown>>
displayVars == <<stat, normalized, gametime, display_pc, treated>>

-----------------------------------------------------------------------------
(* Bounds *)

MaxImports == 2
MaxOrderMatches == 5
MaxCutoffMatches == 4
MaxFilterMatches == 3
MaxStatsMatches == 2
MaxStat == 5

-----------------------------------------------------------------------------
(* Helpers *)

Range(s) == {s[i] : i \in DOMAIN s}

MaxOf(S) == CHOOSE x \in S : \A y \in S : y <= x

MinOf(S) == CHOOSE x \in S : \A y \in S : x <= y

\* autoincrement: the ids handed to a batch follow the largest id in the table
LastId(rows) == IF rows = {} THEN 0 ELSE MaxOf({r.id : r \in rows})

\* pd.DataFrame(rows).loc[:, ["id","name"]].set_index("name").to_dict("dict")["id"]
\* looked up with the `-1` default of the lambdas: the last row of a name wins
NameToId(rows, name) ==
    IF \E r \in rows : r.name = name
    THEN MaxOf({r.id : r \in {q \in rows : q.name = name}})
    ELSE -1

-----------------------------------------------------------------------------
(* The uploaded workbook: sheets Season, Divisions, Teams, Players, Matches *)

DivisionSheets == {<<"D1">>, <<"D1", "D2">>}

TeamSheets ==
    { <<[name |-> "A", Division_name |-> "D1"]>>,
      <<[name |-> "A", Division_name |-> "DX"]>>,
      <<[name |-> "A", Division_name |-> "D1"],
        [name |-> "B", Division_name |-> "D2"]>> }

PlayerSheets ==
    { <<[Player |-> "p1", Team |-> "A", old_team |-> "B"]>>,
      <<[Player |-> "p1", Team |-> "ZZ", old_team |-> "A"]>> }

MatchSheets ==
    { <<[id |-> 1, Division_name |-> "D1", Matchday |-> 1,
         Team1_name |-> "A", Team2_name |-> "B"]>>,
      <<[id |-> 1, Division_name |-> "D1", Matchday |-> 1,
         Team1_name |-> "A", Team2_name |-> "ZZ"],
        [id |-> 2, Division_name |-> "D1", Matchday |-> 2,
         Team1_name |-> "-", Team2_name |-> "-"]>> }

Workbooks ==
    [Season : {"S1"}, Divisions : DivisionSheets, Teams : TeamSheets,
     Players : PlayerSheets, Matches : MatchSheets]

NoWorkbook ==
    [Season |-> "", Divisions |-> <<>>, Teams |-> <<>>, Players |-> <<>>,
     Matches |-> <<>>]

EmptyDb ==
    [leagueseason |-> {}, leaguedivision |-> {}, leagueteam |-> {},
     leagueteamdivisions |-> {}, leagueplayer |-> {}, leagueplayerteams |-> {},
     leaguematch |-> {}, leaguematchdetail |-> {}]

-----------------------------------------------------------------------------
(* The creation steps: each returns the database after its create call *)

create_season(d, excel) ==
    [d EXCEPT !.leagueseason =
        @ \cup {[id |-> LastId(d.leagueseason) + 1, name |-> excel.Season]}]

create_divisions(d, excel, season_id) ==
    [d EXCEPT !.leaguedivision =
        @ \cup {[id |-> LastId(d.leaguedivision) + i,
                 name |-> excel.Divisions[i],
                 leagueSeasonId |-> season_id] : i \in DOMAIN excel.Divisions}]

create_teams(d, excel) ==
    [d EXCEPT !.leagueteam =
        @ \cup {[id |-> LastId(d.leagueteam) + i,
                 name |-> excel.Teams[i].name] : i \in DOMAIN excel.Teams}]

\* a loop that keeps the rows whose division name was not found
team_divisions_data_list_unfiltered(d, excel) ==
    LET team_id(i) == NameToId(d.leagueteam, excel.Teams[i].name)
        div_id(i) == NameToId(d.leaguedivision, excel.Teams[i].Division_name)
    IN {[leagueTeamId |-> team_id(i), leagueDivisionId |-> div_id(i)] :
            i \in DOMAIN excel.Teams}

\* rows built by the loop of lines 125-129: both ids resolved, or no row
team_divisions_data_list(d, excel) ==
    LET team_id(i) == NameToId(d.leagueteam, excel.Teams[i].name)
        div_id(i) == NameToId(d.leaguedivision, excel.Teams[i].Division_name)
    IN {[leagueTeamId |-> team_id(i), leagueDivisionId |-> div_id(i)] :
            i \in {j \in DOMAIN excel.Teams : team_id(j) # -1 /\ div_id(j) # -1}}

create_team_divisions_relationship(d, excel) ==
    [d EXCEPT !.leagueteamdivisions = @ \cup team_divisions_data_list(d, excel)]

\* .loc[:, ["id", "name"]] on the frame of an empty find_many raises KeyError
team_divisions_raises(d, excel) ==
    d.leagueteam = {} \/ d.leaguedivision = {}

create_players(d, excel) ==
    [d EXCEPT !.leagueplayer =
        @ \cup {[id |-> LastId(d.leagueplayer) + i,
                 name |-> excel.Players[i].Player] : i \in DOMAIN excel.Players}]

team_players_data_list_active(d, excel) ==
    LET player_id(i) == NameToId(d.leagueplayer, excel.Players[i].Player)
        team_id(i) == NameToId(d.leagueteam, excel.Players[i].Team)
    IN {[leaguePlayerId |-> player_id(i), leagueTeamId |-> team_id(i),
         active |-> TRUE] :
            i \in {j \in DOMAIN excel.Players :
                      player_id(j) # -1 /\ team_id(j) # -1}}

team_players_data_list_inactive(d, excel) ==
    LET player_id(i) == NameToId(d.leagueplayer, excel.Players[i].Player)
        team_id(i) == NameToId(d.leagueteam, excel.Players[i].old_team)
    IN {[leaguePlayerId |-> player_id(i), leagueTeamId |-> team_id(i),
         active |-> FALSE] :
            i \in {j \in DOMAIN excel.Players :
                      player_id(j) # -1 /\ team_id(j) # -1}}

create_team_players_relationship(d, excel) ==
    [d EXCEPT !.leagueplayerteams =
        @ \cup team_players_data_list_active(d, excel)
          \cup team_players_data_list_inactive(d, excel)]

team_players_raises(d, excel) ==
    d.leagueplayer = {} \/ d.leagueteam = {}

\* the Matches sheet after the filter of lines 218-222
matches_df(excel) ==
    SelectSeq(excel.Matches,
              LAMBDA x : x.Team1_name # "-" /\ x.Team2_name # "-")

\* the left merge with the divisions, one record per matching division row
matches_data_list(d, excel) ==
    {[id |-> p[1].id, leagueDivisionId |-> p[2].id, matchday |-> p[1].Matchday] :
        p \in {q \in Range(matches_df(excel)) \X d.leaguedivision :
                  q[2].name = q[1].Division_name}}

\* int(NaN) for an unmatched division, an empty divisions frame, or a match
\* id that is already taken (the id column is the table's key)
create_matches_raises(d, excel) ==
    \/ d.leaguedivision = {}
    \/ \E x \in Range(matches_df(excel)) :
          NameToId(d.leaguedivision, x.Division_name) = -1
    \/ \E x \in Range(matches_df(excel)) :
          \E m \in d.leaguematch : m.id = x.id
    \/ \E r1, r2 \in matches_data_list(d, excel) :
          r1.id = r2.id /\ r1 # r2

create_matches(d, excel) ==
    [d EXCEPT !.leaguematch = @ \cup matches_data_list(d, excel)]

matches_details_data_list(d, excel) ==
    LET rows == Range(matches_df(excel))
        t1(x) == NameToId(d.leagueteam, x.Team1_name)
        t2(x) == NameToId(d.leagueteam, x.Team2_name)
    IN {[leagueMatchId |-> x.id, leagueTeamId |-> t1(x), home |-> TRUE] :
            x \in {y \in rows : t1(y) # -1}}
       \cup
       {[leagueMatchId |-> x.id, leagueTeamId |-> t2(x), home |-> FALSE] :
            x \in {y \in rows : t2(y) # -1}}

create_matches_details(d, excel) ==
    [d EXCEPT !.leaguematchdetail = @ \cup matches_details_data_list(d, excel)]

matches_details_raises(d, excel) ==
    d.leagueteam = {} \/ d.leaguematch = {}

-----------------------------------------------------------------------------
(* clear_league_db *)

\* rows of the link tables whose parent row is gone, removed when the schema
\* cascades deletions
cascade(d) ==
    LET teams == {r.id : r \in d.leagueteam}
        divs == {r.id : r \in d.leaguedivision}
        players == {r.id : r \in d.leagueplayer}
        seasons == {r.id : r \in d.leagueseason}
        divisions2 == {r \in d.leaguedivision : r.leagueSeasonId \in seasons}
        divs2 == {r.id : r \in divisions2}
        matches2 == {r \in d.leaguematch : r.leagueDivisionId \in divs2}
        mids == {r.id : r \in matches2}
    IN [d EXCEPT
          !.leaguedivision = divisions2,
          !.leaguematch = matches2,
          !.leagueteamdivisions =
              {r \in @ : r.leagueTeamId \in teams /\ r.leagueDivisionId \in divs2},
          !.leagueplayerteams =
              {r \in @ : r.leaguePlayerId \in players /\ r.leagueTeamId \in teams},
          !.leaguematchdetail =
              {r \in @ : r.leagueMatchId \in mids /\ r.leagueTeamId \in teams}]

\* the seven delete_many(where={}) calls, in the order of the code
clear_league_db(d, cascades) ==
    LET deleted == [d EXCEPT !.leagueplayer = {},
                             !.leagueteam = {},
                             !.leagueplayerteams = {},
                             !.leaguedivision = {},
                             !.leaguematch = {},
                             !.leaguematchdetail = {},
                             !.leagueseason = {}]
    IN IF cascades THEN cascade(deleted) ELSE deleted

-----------------------------------------------------------------------------
(* Session state *)

\* "db" not in st.session_state
NoHandle == 0

\* every call returns a new connected handle, numbered by the call
init_connection(calls) == calls + 1

\* a page that connects at every rerun
ConnectAlways ==
    /\ session_db' = init_connection(init_connection_calls)
    /\ init_connection_calls' = init_connection_calls + 1

\* the first statements of main() on both pages
ConnectIfAbsent ==
    IF session_db = NoHandle
    THEN /\ session_db' = init_connection(init_connection_calls)
         /\ init_connection_calls' = init_connection_calls + 1
    ELSE UNCHANGED <<session_db, init_connection_calls>>

\* the key is absent until the login page writes it
AuthenticationValues == {"absent", "False", "True"}

\* "authentication_status" in st.session_state and st.session_state[...]
Authenticated == authentication_status = "True"

\* Python's None, for an Optional[LeagueDivision] and an unresolved player
None == 0

\* None for the Optional[str] team name
NoName == "<None>"

\* a rerun of another page replaces what the statistics page had computed
LeaveStats ==
    /\ matches_list' = <<>>
    /\ teams_list' = <<>>
    /\ players_list' = <<>>
    /\ div_select' = None
    /\ team_name_select' = NoName
    /\ slider_input' = <<>>
    /\ stats_pc' = "idle"
    /\ md_dict_max' = <<>>
    /\ md_dict_filter' = <<>>
    /\ matchday_max' = 0
    /\ matchdays_select' = <<>>
    /\ match_list_filter' = <<>>
    /\ stats_players' = <<>>
    /\ missing_called' = FALSE
    /\ missing_shown' = <<>>

-----------------------------------------------------------------------------
(* Database operations page *)

\* the flag is written by a rerun of the login page of the application,
\* which replaces what the other pages had rendered
SetAuthentication ==
    /\ pc = "idle"
    /\ stats_pc \in {"idle", "done", "error"}
    /\ authentication_status' \in {"False", "True"} \ {authentication_status}
    /\ page' = "login"
    /\ UNCHANGED <<session_db, init_connection_calls, db, on_delete_cascade,
                   excel_file, pc, season, attempted, completed, error_shown,
                   clear_calls, success, imports, admin_actions, displayVars>>
    /\ LeaveStats

\* an except block that forgets to call clear_league_db
ExceptHandlerKeepsRows(message) ==
    /\ error_shown' = message
    /\ success' = "False"
    /\ pc' = "idle"
    /\ UNCHANGED <<db, clear_calls, season, completed, admin_actions>>

\* an except block of treat_excel_file: st.error, clear_league_db, return False
ExceptHandler(message) ==
    /\ error_shown' = message
    /\ db' = clear_league_db(db, on_delete_cascade)
    /\ clear_calls' = clear_calls + 1
    /\ admin_actions' = admin_actions \cup {"clear_league_db"}
    /\ success' = "False"
    /\ pc' = "idle"
    /\ UNCHANGED <<season, completed>>

\* a try body that returned normally: control falls to the next try block
Completed(step, next, d) ==
    /\ db' = d
    /\ completed' = Append(completed, step)
    /\ pc' = next
    /\ UNCHANGED <<error_shown, clear_calls, success, admin_actions>>

TryCreateSeason ==
    /\ pc = "season"
    /\ attempted' = Append(attempted, "season")
    /\ \E raises \in BOOLEAN :
          IF raises
          THEN ExceptHandler("Error while creating season. Clearing database.")
          ELSE /\ db' = create_season(db, excel_file)
               /\ season' = LastId(db.leagueseason) + 1
               /\ completed' = Append(completed, "season")
               /\ pc' = "divisions"
               /\ UNCHANGED <<error_shown, clear_calls, success, admin_actions>>
    /\ UNCHANGED <<statsVars, displayVars, sessionVars, on_delete_cascade,
                   excel_file, page, imports>>

TryCreateDivisions ==
    /\ pc = "divisions"
    /\ attempted' = Append(attempted, "divisions")
    /\ \E raises \in BOOLEAN :
          IF raises
          THEN ExceptHandler("Error while creating divisions. Clearing database.")
          ELSE /\ Completed("divisions", "teams",
                            create_divisions(db, excel_file, season))
               /\ UNCHANGED season
    /\ UNCHANGED <<statsVars, displayVars, sessionVars, on_delete_cascade,
                   excel_file, page, imports>>

\* the teams block followed directly by the players block
TryCreateTeamsThenPlayers ==
    /\ pc = "teams"
    /\ attempted' = Append(attempted, "teams")
    /\ db' = create_teams(db, excel_file)
    /\ completed' = Append(completed, "teams")
    /\ pc' = "players"
    /\ UNCHANGED <<statsVars, displayVars, sessionVars, on_delete_cascade,
                   excel_file, page, imports,
                   season, error_shown, clear_calls, success, admin_actions>>

TryCreateTeams ==
    /\ pc = "teams"
    /\ attempted' = Append(attempted, "teams")
    /\ \E raises \in BOOLEAN :
          IF raises
          THEN ExceptHandler("Error while creating teams. Clearing database.")
          ELSE /\ Completed("teams", "team_divisions",
                            create_teams(db, excel_file))
               /\ UNCHANGED season
    /\ UNCHANGED <<statsVars, displayVars, sessionVars, on_delete_cascade,
                   excel_file, page, imports>>

TryCreateTeamDivisions ==
    /\ pc = "team_divisions"
    /\ attempted' = Append(attempted, "team_divisions")
    /\ \E raises \in BOOLEAN :
          IF raises \/ team_divisions_raises(db, excel_file)
          THEN ExceptHandler("Error while creating team divisions relationship. Clearing database.")
          ELSE /\ Completed("team_divisions", "players",
                            create_team_divisions_relationship(db, excel_file))
               /\ UNCHANGED season
    /\ UNCHANGED <<statsVars, displayVars, sessionVars, on_delete_cascade,
                   excel_file, page, imports>>

TryCreatePlayers ==
    /\ pc = "players"
    /\ attempted' = Append(attempted, "players")
    /\ \E raises \in BOOLEAN :
          IF raises
          THEN ExceptHandler("Error while creating players. Clearing database.")
          ELSE /\ Completed("players", "team_players",
                            create_players(db, excel_file))
               /\ UNCHANGED season
    /\ UNCHANGED <<statsVars, displayVars, sessionVars, on_delete_cascade,
                   excel_file, page, imports>>

TryCreateTeamPlayers ==
    /\ pc = "team_players"
    /\ attempted' = Append(attempted, "team_players")
    /\ \E raises \in BOOLEAN :
          IF raises \/ team_players_raises(db, excel_file)
          THEN ExceptHandler("Error while creating team players relationship. Clearing database.")
          ELSE /\ Completed("team_players", "matches",
                            create_team_players_relationship(db, excel_file))
               /\ UNCHANGED season
    /\ UNCHANGED <<statsVars, displayVars, sessionVars, on_delete_cascade,
                   excel_file, page, imports>>

TryCreateMatches ==
    /\ pc = "matches"
    /\ attempted' = Append(attempted, "matches")
    /\ \E raises \in BOOLEAN :
          IF raises \/ create_matches_raises(db, excel_file)
          THEN ExceptHandler("Error while creating matches. Clearing database.")
          ELSE /\ Completed("matches", "match_details",
                            create_matches(db, excel_file))
               /\ UNCHANGED season
    /\ UNCHANGED <<statsVars, displayVars, sessionVars, on_delete_cascade,
                   excel_file, page, imports>>

\* the last try block and `return True`
TryCreateMatchesDetails ==
    /\ pc = "match_details"
    /\ attempted' = Append(attempted, "match_details")
    /\ \E raises \in BOOLEAN :
          IF raises \/ matches_details_raises(db, excel_file)
          THEN ExceptHandler("Error while creating match details. Clearing database.")
          ELSE /\ db' = create_matches_details(db, excel_file)
               /\ completed' = Append(completed, "match_details")
               /\ success' = "True"
               /\ pc' = "idle"
               /\ UNCHANGED <<season, error_shown, clear_calls, admin_actions>>
    /\ UNCHANGED <<statsVars, displayVars, sessionVars, on_delete_cascade,
                   excel_file, page, imports>>

\* a rerun of main() without the test of the authentication flag
MainDbUngated ==
    /\ pc = "idle"
    /\ stats_pc \in {"idle", "done", "error"}
    /\ ConnectIfAbsent
    /\ attempted' = <<>>
    /\ completed' = <<>>
    /\ clear_calls' = 0
    /\ success' = "none"
    /\ error_shown' = "none"
    /\ page' = "admin"
    /\ \E uploaded \in BOOLEAN, btn_update \in BOOLEAN, wb \in Workbooks :
          IF uploaded /\ btn_update /\ imports < MaxImports
          THEN /\ excel_file' = wb
               /\ imports' = imports + 1
               /\ pc' = "season"
               /\ admin_actions' = {"export", "treat_excel_file"}
          ELSE /\ admin_actions' = {"export"}
               /\ UNCHANGED <<excel_file, pc, imports>>
    /\ UNCHANGED <<authentication_status, db, on_delete_cascade, season,
                   displayVars>>
    /\ LeaveStats

\* one rerun of main(): connection, authentication gate, the export
\* queries of download_league_data_system, and the "Update database"
\* button, which enters treat_excel_file
MainDb ==
    /\ pc = "idle"
    /\ stats_pc \in {"idle", "done", "error"}
    /\ ConnectIfAbsent
    /\ attempted' = <<>>
    /\ completed' = <<>>
    /\ clear_calls' = 0
    /\ success' = "none"
    /\ IF ~Authenticated
       THEN /\ error_shown' = "You are not allowed to see this page"
            /\ page' = "blocked"
            /\ admin_actions' = {}
            /\ UNCHANGED <<excel_file, pc, imports>>
       ELSE /\ error_shown' = "none"
            /\ page' = "admin"
            /\ \E uploaded \in BOOLEAN, btn_update \in BOOLEAN, wb \in Workbooks :
                  IF uploaded /\ btn_update /\ imports < MaxImports
                  THEN /\ excel_file' = wb
                       /\ imports' = imports + 1
                       /\ pc' = "season"
                       /\ admin_actions' = {"export", "treat_excel_file"}
                  ELSE /\ admin_actions' = {"export"}
                       /\ UNCHANGED <<excel_file, pc, imports>>
    /\ UNCHANGED <<authentication_status, db, on_delete_cascade, season,
                   displayVars>>
    /\ LeaveStats

\* the on_click callback of the "Clear league database" button, which the
\* page offers only while its last rerun rendered the admin view
ConfirmClearLeagueDb ==
    /\ pc = "idle"
    /\ page = "admin"
    /\ \E btn \in BOOLEAN :
          IF btn
          THEN /\ db' = clear_league_db(db, on_delete_cascade)
               /\ admin_actions' = admin_actions \cup {"clear_league_db"}
          ELSE UNCHANGED <<db, admin_actions>>
    /\ UNCHANGED <<sessionVars, on_delete_cascade, excel_file, pc, season,
                   attempted, completed, error_shown, clear_calls, success,
                   page, imports, statsVars, displayVars>>

\* the database operations page before its first rerun
IdleDb ==
    /\ db = EmptyDb
    /\ excel_file = NoWorkbook
    /\ pc = "idle"
    /\ season = 0
    /\ attempted = <<>>
    /\ completed = <<>>
    /\ error_shown = "none"
    /\ clear_calls = 0
    /\ success = "none"
    /\ page = "none"
    /\ imports = 0
    /\ admin_actions = {}

-----------------------------------------------------------------------------
(* Statistics page: records read from the database *)

\* utils.get_unique_order: the distinct values in order of first occurrence
get_unique_order(s) ==
    LET F[i \in 0..Len(s)] ==
            IF i = 0 THEN <<>>
            ELSE IF s[i] \in Range(F[i - 1]) THEN F[i - 1]
                 ELSE Append(F[i - 1], s[i])
    IN F[Len(s)]

\* utils.is_match_played: a match is played when it has periods
is_match_played(m) == Len(m.periods) > 0

\* {v: i for i, v in enumerate(md_list)}
enumerate_dict(md_list) ==
    [v \in Range(md_list) |->
        (CHOOSE i \in DOMAIN md_list : md_list[i] = v) - 1]

matchdays_of(ms) == [i \in DOMAIN ms |-> ms[i].matchday]

-----------------------------------------------------------------------------
(* get_div_team_select *)

\* team_name_options: the first assignment (line 51) is always overwritten,
\* so the list is the selected division's teams or empty
team_name_options(teams, division, use_team_filter) ==
    IF use_team_filter /\ division # None
    THEN LET in_div == SelectSeq(teams,
                          LAMBDA t : \E i \in DOMAIN t.divisions :
                                        t.divisions[i] = division)
         IN [i \in DOMAIN in_div |-> in_div[i].name]
    ELSE <<>>

\* the values st.selectbox can return: None for an empty option list
selectbox(options) ==
    IF options = <<>> THEN {NoName} ELSE Range(options)

-----------------------------------------------------------------------------
(* get_max_matchday_stats *)

max_md_dict(matches, division) ==
    LET matches_div ==
            SelectSeq(matches, LAMBDA m : m.leagueDivisionId = division)
    IN enumerate_dict(get_unique_order(matchdays_of(matches_div)))

\* a cutoff that gives the sentinel of the unselected division to a
\* division without matches
get_max_matchday_stats_sentinel(matches, division) ==
    IF division = None THEN 1
    ELSE
      LET matches_div ==
              SelectSeq(matches, LAMBDA m : m.leagueDivisionId = division)
          md_dict == max_md_dict(matches, division)
          md_val_not_played ==
              {md_dict[matches_div[i].matchday] :
                  i \in {j \in DOMAIN matches_div :
                            ~is_match_played(matches_div[j])}}
      IN IF DOMAIN md_dict = {} THEN 1
         ELSE IF md_val_not_played = {}
              THEN MaxOf({md_dict[v] : v \in DOMAIN md_dict})
              ELSE LET min_md_val_no_play == MinOf(md_val_not_played)
                   IN IF min_md_val_no_play - 1 > 0
                      THEN min_md_val_no_play - 1 ELSE 0

\* the cutoff without the floor at zero
get_max_matchday_stats_unfloored(matches, division) ==
    IF division = None THEN 1
    ELSE
      LET matches_div ==
              SelectSeq(matches, LAMBDA m : m.leagueDivisionId = division)
          md_dict == max_md_dict(matches, division)
          md_val_not_played ==
              {md_dict[matches_div[i].matchday] :
                  i \in {j \in DOMAIN matches_div :
                            ~is_match_played(matches_div[j])}}
      IN IF DOMAIN md_dict = {} THEN 0
         ELSE IF md_val_not_played = {}
              THEN MaxOf({md_dict[v] : v \in DOMAIN md_dict})
              ELSE MinOf(md_val_not_played) - 1

get_max_matchday_stats(matches, division) ==
    IF division = None THEN 1
    ELSE
      LET matches_div ==
              SelectSeq(matches, LAMBDA m : m.leagueDivisionId = division)
          md_dict == max_md_dict(matches, division)
          md_val_not_played ==
              {md_dict[matches_div[i].matchday] :
                  i \in {j \in DOMAIN matches_div :
                            ~is_match_played(matches_div[j])}}
      IN IF DOMAIN md_dict = {} THEN 0
         ELSE IF md_val_not_played = {}
              THEN MaxOf({md_dict[v] : v \in DOMAIN md_dict})
              ELSE LET min_md_val_no_play == MinOf(md_val_not_played)
                   IN IF min_md_val_no_play - 1 > 0
                      THEN min_md_val_no_play - 1 ELSE 0

-----------------------------------------------------------------------------
(* filter_matches *)

\* the labels numbered in sorted order, as sorted(set(...)) would
filter_md_dict_sorted(matches, division) ==
    LET matches_div ==
            SelectSeq(matches, LAMBDA m : m.leagueDivisionId = division)
        labels == Range(matchdays_of(matches_div))
    IN [v \in labels |-> Cardinality({w \in labels : w < v})]

filter_md_dict(matches, division) ==
    LET matches_div ==
            SelectSeq(matches, LAMBDA m : m.leagueDivisionId = division)
    IN enumerate_dict(get_unique_order(matchdays_of(matches_div)))

\* the range test with an exclusive upper bound
\* a filter that applies the team name although no division is selected
filter_matches_team_only(matches, team_name, division, select) ==
    IF division = None
    THEN SelectSeq(matches,
            LAMBDA m : team_name = NoName
                       \/ \E i \in DOMAIN m.detail : m.detail[i] = team_name)
    ELSE
      LET matches_div ==
              SelectSeq(matches, LAMBDA m : m.leagueDivisionId = division)
          md_dict == filter_md_dict(matches, division)
      IN SelectSeq(matches_div,
            LAMBDA m :
               /\ ~(md_dict[m.matchday] < select[1]
                    \/ md_dict[m.matchday] > select[2])
               /\ (team_name = NoName
                   \/ \E i \in DOMAIN m.detail : m.detail[i] = team_name))

filter_matches_exclusive(matches, team_name, division, select) ==
    IF division = None THEN matches
    ELSE
      LET matches_div ==
              SelectSeq(matches, LAMBDA m : m.leagueDivisionId = division)
          md_dict == filter_md_dict(matches, division)
      IN SelectSeq(matches_div,
            LAMBDA m :
               /\ ~(md_dict[m.matchday] < select[1]
                    \/ md_dict[m.matchday] >= select[2])
               /\ (team_name = NoName
                   \/ \E i \in DOMAIN m.detail : m.detail[i] = team_name))

filter_matches(matches, team_name, division, select) ==
    IF division = None THEN matches
    ELSE
      LET matches_div ==
              SelectSeq(matches, LAMBDA m : m.leagueDivisionId = division)
          md_dict == filter_md_dict(matches, division)
      IN SelectSeq(matches_div,
            LAMBDA m :
               /\ ~(md_dict[m.matchday] < select[1]
                    \/ md_dict[m.matchday] > select[2])
               /\ (team_name = NoName
                   \/ \E i \in DOMAIN m.detail : m.detail[i] = team_name))

-----------------------------------------------------------------------------
(* get_stats and show_missing_stats *)

\* the roster player a recorded name resolves to, or None
resolve_player(players, name) ==
    IF \E i \in DOMAIN players : players[i].name = name
    THEN players[CHOOSE i \in DOMAIN players : players[i].name = name].id
    ELSE None

Concat(ss) ==
    LET F[i \in 0..Len(ss)] == IF i = 0 THEN <<>> ELSE F[i - 1] \o ss[i]
    IN F[Len(ss)]

\* utils.get_statsheet_list: one sheet per period and recorded line, the
\* player resolved against the roster (None for an orphan line)
get_statsheet_list(players, m) ==
    Concat([k \in DOMAIN m.periods |->
        [j \in DOMAIN m.periods[k] |->
            [player |-> resolve_player(players, m.periods[k][j].player_name),
             player_name |-> m.periods[k][j].player_name,
             team |-> m.periods[k][j].team,
             period_nb |-> k,
             goals |-> m.periods[k][j].goals,
             gametime |-> m.periods[k][j].gametime]]])

SumOver(s, f(_)) ==
    LET F[i \in 0..Len(s)] == IF i = 0 THEN 0 ELSE F[i - 1] + f(s[i])
    IN F[Len(s)]

\* a resolved player is its own group; orphan lines group by recorded name
sheet_key(ps) ==
    IF ps.player # None THEN <<ps.player, "">> ELSE <<None, ps.player_name>>

\* utils.sum_sheets: sheets grouped by player identity, summed field by field
sum_sheets(period_sheets) ==
    LET keys == get_unique_order([i \in DOMAIN period_sheets |->
                                    sheet_key(period_sheets[i])])
        group(k) == SelectSeq(period_sheets, LAMBDA ps : sheet_key(ps) = k)
    IN [n \in DOMAIN keys |->
          [player |-> keys[n][1],
           player_name |-> group(keys[n])[1].player_name,
           goals |-> SumOver(group(keys[n]), LAMBDA ps : ps.goals),
           gametime |-> SumOver(group(keys[n]), LAMBDA ps : ps.gametime)]]

\* players_stats_id of lines 116-125
players_stats_id(teams, division, team_name) ==
    UNION {{teams[t].players[i].player :
               i \in {j \in DOMAIN teams[t].players : teams[t].players[j].active}} :
           t \in {u \in DOMAIN teams :
                    /\ (division = None
                        \/ \E i \in DOMAIN teams[u].divisions :
                              teams[u].divisions[i] = division)
                    /\ (team_name = NoName
                        \/ (team_name # NoName /\ teams[u].name = team_name))}}

\* the roster built from every team link, active or not
get_stats_any_link(matches_filter, teams, players, division, team_name) ==
    LET period_sheets ==
            Concat([i \in DOMAIN matches_filter |->
                       get_statsheet_list(players, matches_filter[i])])
        roster ==
            UNION {{teams[t].players[i].player : i \in DOMAIN teams[t].players} :
                   t \in {u \in DOMAIN teams :
                            /\ (division = None
                                \/ \E i \in DOMAIN teams[u].divisions :
                                      teams[u].divisions[i] = division)
                            /\ (team_name = NoName \/ teams[u].name = team_name)}}
    IN SelectSeq(sum_sheets(period_sheets),
                 LAMBDA ps : ps.player # None /\ ps.player \in roster)

\* period_sheets assigned from each match instead of extended
get_stats_last_match(matches_filter, teams, players, division, team_name) ==
    LET period_sheets ==
            IF matches_filter = <<>> THEN <<>>
            ELSE get_statsheet_list(players,
                                    matches_filter[Len(matches_filter)])
    IN SelectSeq(sum_sheets(period_sheets),
                 LAMBDA ps :
                    /\ ps.player # None
                    /\ ps.player \in players_stats_id(teams, division, team_name))

\* the final comprehension without the `is not None` test
get_stats_keeps_orphans(matches_filter, teams, players, division, team_name) ==
    LET period_sheets ==
            Concat([i \in DOMAIN matches_filter |->
                       get_statsheet_list(players, matches_filter[i])])
    IN SelectSeq(sum_sheets(period_sheets),
                 LAMBDA ps :
                    \/ ps.player = None
                    \/ ps.player \in players_stats_id(teams, division, team_name))

get_stats(matches_filter, teams, players, division, team_name) ==
    LET period_sheets ==
            Concat([i \in DOMAIN matches_filter |->
                       get_statsheet_list(players, matches_filter[i])])
        player_sheets == sum_sheets(period_sheets)
    IN SelectSeq(player_sheets,
                 LAMBDA ps :
                    /\ ps.player # None
                    /\ ps.player \in players_stats_id(teams, division, team_name))

\* empty_sheets of show_missing_stats: (sheet, match) pairs in match order
show_missing_stats(matches_filter, players) ==
    Concat([i \in DOMAIN matches_filter |->
        LET ps_list == get_statsheet_list(players, matches_filter[i])
            empty == SelectSeq(ps_list, LAMBDA ps : ps.player = None)
        IN [j \in DOMAIN empty |->
               [ps |-> empty[j], m |-> matches_filter[i].id]]])

-----------------------------------------------------------------------------
(* treat_stat *)

\* utils.constants.GAME_TIME, minutes per half
GAME_TIME == 10

\* a quotient a/b of two fractions; a zero denominator stands for the
\* inf/NaN of a float division by zero
Frac(n, d) == [num |-> n, den |-> d]

FracDiv(a, b) == Frac(a.num * b.den, a.den * b.num)

\* the basis taken as one half instead of the full game
treat_stat_half(s, norm, gt) ==
    IF norm
    THEN FracDiv(Frac(s, 1), FracDiv(Frac(gt, 1), Frac(GAME_TIME * 60, 1)))
    ELSE Frac(s, 1)

treat_stat(s, norm, gt) ==
    IF norm
    THEN FracDiv(Frac(s, 1), FracDiv(Frac(gt, 1), Frac(GAME_TIME * 2 * 60, 1)))
    ELSE Frac(s, 1)

-----------------------------------------------------------------------------
(* Statistics page: main() *)

\* lines 388-404: the matchday options of the selection and the cutoff
GetMaxMatchdayStats ==
    /\ stats_pc = "start"
    /\ matchday_max' = get_max_matchday_stats(matches_list, div_select)
    /\ md_dict_max' = IF div_select = None THEN <<>>
                      ELSE max_md_dict(matches_list, div_select)
    /\ stats_pc' = "slider"
    /\ UNCHANGED <<matches_list, teams_list, players_list, div_select,
                   team_name_select, slider_input, md_dict_filter,
                   matchdays_select, match_list_filter, stats_players,
                   missing_called, missing_shown>>
    /\ UNCHANGED <<sessionVars, dbVars, displayVars>>

\* main: matchdays_options_div
matchdays_options_div(matches, division) ==
    IF division = None THEN <<1, 1>>
    ELSE get_unique_order(matchdays_of(
            SelectSeq(matches, LAMBDA m : m.leagueDivisionId = division)))

\* lines 406-411: st.select_slider raises when a default value is no option
SelectSlider ==
    /\ stats_pc = "slider"
    /\ LET matchdays_values ==
               0..(Len(matchdays_options_div(matches_list, div_select)) - 1)
       IN IF 0 \in matchdays_values /\ matchday_max \in matchdays_values
          THEN /\ matchdays_select' =
                     IF /\ slider_input # <<>>
                        /\ slider_input[1] \in matchdays_values
                        /\ slider_input[2] \in matchdays_values
                     THEN slider_input
                     ELSE <<0, matchday_max>>
               /\ stats_pc' = "filter"
          ELSE /\ stats_pc' = "error"
               /\ UNCHANGED matchdays_select
    /\ UNCHANGED <<matches_list, teams_list, players_list, div_select,
                   team_name_select, slider_input, md_dict_max, md_dict_filter,
                   matchday_max, match_list_filter, stats_players,
                   missing_called, missing_shown>>
    /\ UNCHANGED <<sessionVars, dbVars, displayVars>>

\* lines 413-415
FilterMatches ==
    /\ stats_pc = "filter"
    /\ match_list_filter' = filter_matches(matches_list, team_name_select,
                                           div_select, matchdays_select)
    /\ md_dict_filter' = IF div_select = None THEN <<>>
                         ELSE filter_md_dict(matches_list, div_select)
    /\ stats_pc' = "stats"
    /\ UNCHANGED <<matches_list, teams_list, players_list, div_select,
                   team_name_select, slider_input, md_dict_max, matchday_max,
                   matchdays_select, stats_players, missing_called,
                   missing_shown>>
    /\ UNCHANGED <<sessionVars, dbVars, displayVars>>

\* lines 417-423
GetStats ==
    /\ stats_pc = "stats"
    /\ stats_players' = get_stats(match_list_filter, teams_list, players_list,
                                  div_select, team_name_select)
    /\ stats_pc' = "missing"
    /\ UNCHANGED <<matches_list, teams_list, players_list, div_select,
                   team_name_select, slider_input, md_dict_max, md_dict_filter,
                   matchday_max, matchdays_select, match_list_filter,
                   missing_called, missing_shown>>
    /\ UNCHANGED <<sessionVars, dbVars, displayVars>>

\* lines 427-431
ShowMissingStats ==
    /\ stats_pc = "missing"
    /\ IF Authenticated
       THEN /\ missing_called' = TRUE
            /\ missing_shown' = show_missing_stats(match_list_filter,
                                                   players_list)
       ELSE UNCHANGED <<missing_called, missing_shown>>
    /\ stats_pc' = "done"
    /\ UNCHANGED <<matches_list, teams_list, players_list, div_select,
                   team_name_select, slider_input, md_dict_max, md_dict_filter,
                   matchday_max, matchdays_select, match_list_filter,
                   stats_players>>
    /\ UNCHANGED <<sessionVars, dbVars, displayVars>>

\* display_stats applying treat_stat to one column value
TreatStat ==
    /\ display_pc = "start"
    /\ treated' = treat_stat(stat, normalized, gametime)
    /\ display_pc' = "done"
    /\ UNCHANGED <<stat, normalized, gametime>>
    /\ UNCHANGED <<sessionVars, dbVars, statsVars>>

-----------------------------------------------------------------------------
(* Statistics page: the queries of a rerun inside a session *)

\* the rows of a table in the order of their ids
SeqById(rows) ==
    [k \in 1..Cardinality(rows) |->
        CHOOSE r \in rows : Cardinality({q \in rows : q.id < r.id}) = k - 1]

\* the names of the teams of a match, the home side first
detail_of(d, match_id) ==
    LET side(h) == {r \in d.leaguematchdetail :
                       r.leagueMatchId = match_id /\ r.home = h}
        names(h) == [k \in 1..Cardinality(side(h)) |->
                        (CHOOSE t \in d.leagueteam :
                            t.id = (CHOOSE r \in side(h) : TRUE).leagueTeamId).name]
    IN names(TRUE) \o names(FALSE)

\* the import writes no period, so its matches come back unplayed
get_matches(d) ==
    LET rows == SeqById(d.leaguematch)
    IN [k \in DOMAIN rows |->
          [id |-> rows[k].id, leagueDivisionId |-> rows[k].leagueDivisionId,
           matchday |-> rows[k].matchday, detail |-> detail_of(d, rows[k].id),
           periods |-> <<>>]]

get_teams(d) ==
    LET rows == SeqById(d.leagueteam)
        divs(t) == SeqById({[id |-> r.leagueDivisionId] :
                               r \in {q \in d.leagueteamdivisions :
                                         q.leagueTeamId = t.id}})
        links(t) == SeqById({[id |-> r.leaguePlayerId, active |-> r.active] :
                                r \in {q \in d.leagueplayerteams :
                                          q.leagueTeamId = t.id}})
    IN [k \in DOMAIN rows |->
          [name |-> rows[k].name,
           divisions |-> [i \in DOMAIN divs(rows[k]) |-> divs(rows[k])[i].id],
           players |-> [i \in DOMAIN links(rows[k]) |->
                           [player |-> links(rows[k])[i].id,
                            active |-> links(rows[k])[i].active]]]]

get_players(d) == SeqById(d.leagueplayer)

get_divisions(d) == {r.id : r \in d.leaguedivision}

\* the values of the division selectbox: [None] + divisions
division_options(divisions) == {None} \cup divisions

\* lines 376-402: connection, the four queries and the selection widgets;
\* the rerun replaces what the other pages had rendered
MainStats ==
    /\ pc = "idle"
    /\ stats_pc \in {"idle", "done", "error"}
    /\ ConnectIfAbsent
    /\ page' = "stats"
    /\ matches_list' = get_matches(db)
    /\ teams_list' = get_teams(db)
    /\ players_list' = get_players(db)
    /\ \E division \in division_options(get_divisions(db)),
          use_team_filter \in BOOLEAN :
          /\ div_select' = division
          /\ team_name_select' \in
                selectbox(team_name_options(get_teams(db), division,
                                            use_team_filter))
    /\ slider_input' = <<>>
    /\ stats_pc' = "start"
    /\ md_dict_max' = <<>>
    /\ md_dict_filter' = <<>>
    /\ matchday_max' = 0
    /\ matchdays_select' = <<>>
    /\ match_list_filter' = <<>>
    /\ stats_players' = <<>>
    /\ missing_called' = FALSE
    /\ missing_shown' = <<>>
    /\ excel_file' = NoWorkbook
    /\ season' = 0
    /\ attempted' = <<>>
    /\ completed' = <<>>
    /\ error_shown' = "none"
    /\ clear_calls' = 0
    /\ success' = "none"
    /\ admin_actions' = {}
    /\ UNCHANGED <<authentication_status, db, on_delete_cascade, pc, imports,
                   displayVars>>

-----------------------------------------------------------------------------
(* Inputs of the statistics page *)

PlayedNoSheets == << <<>> >>

Roster == <<[id |-> 1, name |-> "p1"], [id |-> 2, name |-> "p2"]>>

Link(p, a) == [player |-> p, active |-> a]

Team(n, divs, links) == [name |-> n, divisions |-> divs, players |-> links]

DefaultTeams ==
    <<Team("A", <<1>>, <<Link(1, TRUE)>>),
      Team("B", <<1>>, <<Link(2, TRUE)>>),
      Team("C", <<2>>, <<>>)>>

Line(n, g, t) == [player_name |-> n, team |-> "A", goals |-> g, gametime |-> t]

\* the periods of a match: none (unplayed), one or two, with their lines
PeriodShapes ==
    { <<>>,
      << <<Line("p1", 1, 600)>> >>,
      << <<Line("p1", 2, 900)>> >>,
      << <<Line("p2", 1, 600)>> >>,
      << <<Line("ghost", 2, 900)>> >>,
      << <<Line("p1", 1, 600), Line("ghost", 1, 600)>>, <<Line("p1", 2, 900)>> >>,
      << <<Line("p2", 2, 900)>>, <<Line("p1", 1, 600)>> >> }

TeamConfigs ==
    { <<Team("A", <<1>>, la), Team("B", db2, lb)>> :
        la \in { <<>>, <<Link(1, TRUE)>>, <<Link(1, FALSE)>> },
        db2 \in { <<1>>, <<2>> },
        lb \in { <<>>, <<Link(1, TRUE)>>, <<Link(2, TRUE)>> } }

OrderShapes ==
    [leagueDivisionId : {1, 2}, matchday : {1, 2, 3},
     detail : {<<"A", "B">>}, periods : {PlayedNoSheets}]

CutoffShapes ==
    [leagueDivisionId : {1}, matchday : {1, 2, 3},
     detail : {<<"A", "B">>}, periods : {<<>>, PlayedNoSheets}]
    \cup
    [leagueDivisionId : {2}, matchday : {1},
     detail : {<<"A", "B">>}, periods : {<<>>, PlayedNoSheets}]

FilterShapes ==
    [leagueDivisionId : {1, 2}, matchday : {1, 2},
     detail : {<<"A", "B">>, <<"B", "C">>}, periods : {PlayedNoSheets}]

StatsShapes ==
    [leagueDivisionId : {1}, matchday : {1},
     detail : {<<"A", "B">>}, periods : PeriodShapes]

\* the match lists of at most n matches, ids in list order
MatchLists(shapes, n) ==
    { [i \in DOMAIN l |->
         [id |-> i, leagueDivisionId |-> l[i].leagueDivisionId,
          matchday |-> l[i].matchday, detail |-> l[i].detail,
          periods |-> l[i].periods]] :
      l \in UNION {[1..k -> shapes] : k \in 0..n} }

\* the other page is not running
IdleStats ==
    /\ matches_list = <<>>
    /\ teams_list = <<>>
    /\ players_list = <<>>
    /\ div_select = None
    /\ team_name_select = NoName
    /\ slider_input = <<>>
    /\ stats_pc = "idle"
    /\ md_dict_max = <<>>
    /\ md_dict_filter = <<>>
    /\ matchday_max = 0
    /\ matchdays_select = <<>>
    /\ match_list_filter = <<>>
    /\ stats_players = <<>>
    /\ missing_called = FALSE
    /\ missing_shown = <<>>

IdleDisplay ==
    /\ stat = 0
    /\ normalized = FALSE
    /\ gametime = 0
    /\ display_pc = "idle"
    /\ treated = Frac(0, 1)

\* the locals of a rerun of the statistics page before its first statement
StartStats ==
    /\ stats_pc = "start"
    /\ md_dict_max = <<>>
    /\ md_dict_filter = <<>>
    /\ matchday_max = 0
    /\ matchdays_select = <<>>
    /\ match_list_filter = <<>>
    /\ stats_players = <<>>
    /\ missing_called = FALSE
    /\ missing_shown = <<>>

StatsSession(auth) ==
    /\ session_db = 1
    /\ init_connection_calls = 1
    /\ authentication_status \in auth
    /\ on_delete_cascade = FALSE
    /\ IdleDb
    /\ IdleDisplay

-----------------------------------------------------------------------------
(* Specifications *)

InitDb ==
    /\ session_db = NoHandle
    /\ init_connection_calls = 0
    /\ authentication_status = "absent"
    /\ on_delete_cascade \in BOOLEAN
    /\ IdleDb
    /\ IdleStats
    /\ IdleDisplay

NextDb ==
    \/ SetAuthentication
    \/ MainDb
    \/ ConfirmClearLeagueDb
    \/ TryCreateSeason
    \/ TryCreateDivisions
    \/ TryCreateTeams
    \/ TryCreateTeamDivisions
    \/ TryCreatePlayers
    \/ TryCreateTeamPlayers
    \/ TryCreateMatches
    \/ TryCreateMatchesDetails

\* long match lists of one or two divisions, every match played
InitOrder ==
    /\ StatsSession({"False"})
    /\ StartStats
    /\ matches_list \in MatchLists(OrderShapes, MaxOrderMatches)
    /\ teams_list = DefaultTeams
    /\ players_list = Roster
    /\ div_select \in {1, 2}
    /\ team_name_select \in
          selectbox(team_name_options(teams_list, div_select, FALSE))
    /\ slider_input = <<>>

\* played and unplayed matches
InitCutoff ==
    /\ StatsSession({"False"})
    /\ StartStats
    /\ matches_list \in MatchLists(CutoffShapes, MaxCutoffMatches)
    /\ teams_list = DefaultTeams
    /\ players_list = Roster
    /\ div_select \in {None, 1, 2}
    /\ team_name_select \in
          selectbox(team_name_options(teams_list, div_select, FALSE))
    /\ slider_input = <<>>

\* team filters and slider ranges
InitFilter ==
    /\ StatsSession({"False"})
    /\ StartStats
    /\ matches_list \in MatchLists(FilterShapes, MaxFilterMatches)
    /\ teams_list = DefaultTeams
    /\ players_list = Roster
    /\ div_select \in {None, 1}
    /\ \E use_team_filter \in BOOLEAN :
          team_name_select \in
             selectbox(team_name_options(teams_list, div_select,
                                         use_team_filter))
    /\ slider_input \in {<<>>, <<0, 0>>, <<1, 1>>, <<0, 1>>}

\* rosters and stat lines
InitStats ==
    /\ StatsSession(AuthenticationValues)
    /\ StartStats
    /\ matches_list \in MatchLists(StatsShapes, MaxStatsMatches)
    /\ teams_list \in TeamConfigs
    /\ players_list = Roster
    /\ div_select \in {None, 1}
    /\ \E use_team_filter \in BOOLEAN :
          team_name_select \in
             selectbox(team_name_options(teams_list, div_select,
                                         use_team_filter))
    /\ slider_input = <<>>

InitTreatStat ==
    /\ session_db = 1
    /\ init_connection_calls = 1
    /\ authentication_status = "False"
    /\ on_delete_cascade = FALSE
    /\ IdleDb
    /\ IdleStats
    /\ stat \in 0..MaxStat
    /\ normalized \in BOOLEAN
    /\ gametime \in {0, 600, 900, 1500, 1800}
    /\ display_pc = "start"
    /\ treated = Frac(0, 1)

NextStats ==
    \/ GetMaxMatchdayStats
    \/ SelectSlider
    \/ FilterMatches
    \/ GetStats
    \/ ShowMissingStats

NextDisplay == TreatStat

\* one user session over both pages, from its first rerun
NextSession ==
    \/ NextDb
    \/ MainStats
    \/ NextStats

vars == <<sessionVars, dbVars, statsVars, displayVars>>

SpecImport == InitDb /\ [][NextDb]_vars

SpecOrder == InitOrder /\ [][NextStats]_vars

SpecCutoff == InitCutoff /\ [][NextStats]_vars

SpecFilter == InitFilter /\ [][NextStats]_vars

SpecStats == InitStats /\ [][NextStats]_vars

SpecTreatStat == InitTreatStat /\ [][NextDisplay]_vars

SpecSession == InitDb /\ [][NextSession]_vars

-----------------------------------------------------------------------------
(* Claims about the import *)

StepOrder ==
    <<"season", "divisions", "teams", "team_divisions", "players",
      "team_players", "matches", "match_details">>

StepMessage ==
    [season |-> "Error while creating season. Clearing database.",
     divisions |-> "Error while creating divisions. Clearing database.",
     teams |-> "Error while creating teams. Clearing database.",
     team_divisions |->
        "Error while creating team divisions relationship. Clearing database.",
     players |-> "Error while creating players. Clearing database.",
     team_players |->
        "Error while creating team players relationship. Clearing database.",
     matches |-> "Error while creating matches. Clearing database.",
     match_details |-> "Error while creating match details. Clearing database."]

Returned == pc = "idle" /\ success # "none"

RowCount(d) ==
    Cardinality(d.leagueseason) + Cardinality(d.leaguedivision)
    + Cardinality(d.leagueteam) + Cardinality(d.leagueteamdivisions)
    + Cardinality(d.leagueplayer) + Cardinality(d.leagueplayerteams)
    + Cardinality(d.leaguematch) + Cardinality(d.leaguematchdetail)

\* C1: when treat_excel_file returns after create_players raised, every
\* league table (season, divisions, teams, team/division links, players,
\* team/player links, matches, match details) holds zero rows.
C1_PlayersFailureEmptiesEveryTable ==
    (Returned /\ error_shown = StepMessage.players) => RowCount(db) = 0

\* C2: the steps entered by a run are always an initial segment of the fixed
\* order season .. match details, every entered step but the one in progress
\* or failed has completed, and the block control sits at is the next of the
\* order: no step is entered twice, skipped or taken out of order.
C2_StepsRunInFixedOrder ==
    LET n == Len(attempted) IN
    /\ n <= Len(StepOrder)
    /\ attempted = SubSeq(StepOrder, 1, n)
    /\ \/ completed = attempted
       \/ n > 0 /\ completed = SubSeq(attempted, 1, n - 1)
    /\ pc # "idle" => completed = attempted /\ pc = StepOrder[n + 1]

C2_Witness ==
    Returned /\ attempted = StepOrder /\ completed = StepOrder

\* C3: a run that returns False has shown the message of the step it entered
\* last, has called clear_league_db exactly once, and that step is the only
\* one that did not complete; a run returns True exactly when all eight steps
\* completed, and then clear_league_db was not called and no error was shown;
\* before a run returns it has neither cleared nor shown an error.
C3_FailureClearsOnceAndReturnsFalse ==
    LET n == Len(attempted) IN
    /\ (Returned /\ success = "False") =>
          /\ n > 0
          /\ error_shown = StepMessage[attempted[n]]
          /\ clear_calls = 1
          /\ completed = SubSeq(attempted, 1, n - 1)
          /\ \A i, j \in 1..n : attempted[i] = attempted[j] => i = j
    /\ (Returned /\ success = "True") =>
          /\ completed = StepOrder
          /\ clear_calls = 0
          /\ error_shown = "none"
    /\ (Returned /\ completed = StepOrder) => success = "True"
    /\ pc # "idle" => clear_calls = 0 /\ error_shown = "none" /\ success = "none"

C3_Witness ==
    /\ Returned
    /\ success = "False"
    /\ error_shown = StepMessage.matches
    /\ attempted = SubSeq(StepOrder, 1, 7)
    /\ clear_calls = 1

-----------------------------------------------------------------------------
(* Claims about the matchday order, the cutoff and the match filter *)

\* positions of the division's matches in the match list
DivIdx(matches, division) ==
    {i \in DOMAIN matches : matches[i].leagueDivisionId = division}

DivLabels(matches, division) ==
    {matches[i].matchday : i \in DivIdx(matches, division)}

\* number of distinct labels the division shows before the first match of
\* label v: the position of v among the distinct labels in list order
FirstSeenIndex(matches, division, v) ==
    LET first == MinOf({i \in DivIdx(matches, division) :
                           matches[i].matchday = v})
    IN Cardinality({matches[j].matchday :
                       j \in {k \in DivIdx(matches, division) : k < first}})

IsFirstSeenDict(d, matches, division) ==
    /\ DOMAIN d = DivLabels(matches, division)
    /\ \A v \in DivLabels(matches, division) :
          d[v] = FirstSeenIndex(matches, division, v)

AfterMax == stats_pc \in {"slider", "filter", "stats", "missing", "done", "error"}

AfterFilter == stats_pc \in {"stats", "missing", "done"}

AfterStats == stats_pc \in {"missing", "done"}

\* C4: for a selected division, the index get_max_matchday_stats and
\* filter_matches give a matchday label is the position of its first
\* occurrence among the distinct labels of the division's matches in list
\* order (no sorting), and the two functions build the same assignment.
C4_MatchdayIndexIsFirstSeenOrder ==
    div_select # None =>
      /\ AfterMax => IsFirstSeenDict(md_dict_max, matches_list, div_select)
      /\ AfterFilter =>
            /\ IsFirstSeenDict(md_dict_filter, matches_list, div_select)
            /\ md_dict_filter = md_dict_max

\* first-seen matchdays [3,3,1,2,2] of one division get indices [0,0,1,2,2]
C4_Witness ==
    /\ AfterFilter
    /\ div_select = 1
    /\ Len(matches_list) = 5
    /\ \A i \in DOMAIN matches_list : matches_list[i].leagueDivisionId = 1
    /\ matchdays_of(matches_list) = <<3, 3, 1, 2, 2>>
    /\ [i \in DOMAIN matches_list |-> md_dict_filter[matches_list[i].matchday]]
          = <<0, 0, 1, 2, 2>>

UnplayedIdx(matches, division) ==
    {i \in DivIdx(matches, division) : Len(matches[i].periods) = 0}

\* C5: for a selected division with at least one match, the cutoff is the
\* largest assigned index when every match of the division is played, and
\* otherwise max(0, k-1) for the smallest assigned index k of its unplayed
\* matches; the matches of other divisions do not change it.
C5_CutoffIsLastCompletedMatchday ==
    (AfterMax /\ div_select # None /\ DivIdx(matches_list, div_select) # {}) =>
      LET idx(i) == FirstSeenIndex(matches_list, div_select,
                                   matches_list[i].matchday)
          unplayed == UnplayedIdx(matches_list, div_select)
          k == MinOf({idx(i) : i \in unplayed})
      IN /\ unplayed = {} =>
               matchday_max =
                  MaxOf({idx(i) : i \in DivIdx(matches_list, div_select)})
         /\ unplayed # {} =>
               matchday_max = (IF k - 1 > 0 THEN k - 1 ELSE 0)
         /\ matchday_max =
               get_max_matchday_stats(
                  SelectSeq(matches_list,
                            LAMBDA m : m.leagueDivisionId = div_select),
                  div_select)

\* the third matchday of division 1 is its first with an unplayed match,
\* after an unplayed match of division 2 that opens the list
C5_Witness ==
    /\ AfterMax
    /\ div_select = 1
    /\ matchday_max = 1
    /\ UnplayedIdx(matches_list, 1) # {}
    /\ \A i \in UnplayedIdx(matches_list, 1) :
          FirstSeenIndex(matches_list, 1, matches_list[i].matchday) = 2
    /\ 1 \in UnplayedIdx(matches_list, 2)

\* C6: for a selected division, filter_matches returns exactly the matches
\* of the input list, in input order, that belong to the division, whose
\* assigned matchday index lies in [a, b] (both inclusive), and, when a team
\* name is given, that have a team of that name in their team-details.
C6_FilterKeepsExactlyTheMatchingMatches ==
    (AfterFilter /\ div_select # None) =>
      match_list_filter =
        SelectSeq(matches_list,
          LAMBDA m :
            /\ m.leagueDivisionId = div_select
            /\ matchdays_select[1]
                  <= FirstSeenIndex(matches_list, div_select, m.matchday)
            /\ FirstSeenIndex(matches_list, div_select, m.matchday)
                  <= matchdays_select[2]
            /\ (team_name_select # NoName =>
                   team_name_select \in Range(m.detail)))

\* each of the three conditions removes a match and one match is kept
C6_Witness ==
    /\ AfterFilter
    /\ div_select = 1
    /\ team_name_select = "A"
    /\ matchdays_select = <<1, 1>>
    /\ Len(match_list_filter) = 1
    /\ Len(matches_list) = 3
    /\ \E i \in DOMAIN matches_list : matches_list[i].leagueDivisionId = 2
    /\ \E i \in DivIdx(matches_list, 1) :
          FirstSeenIndex(matches_list, 1, matches_list[i].matchday) = 0

-----------------------------------------------------------------------------
(* Claims about the aggregation *)

\* the recorded lines of the filtered matches: (match, period, line)
LineRefs(ms) ==
    UNION {UNION {{<<i, k, j>> : j \in DOMAIN ms[i].periods[k]} :
                     k \in DOMAIN ms[i].periods} :
              i \in DOMAIN ms}

LineAt(ms, r) == ms[r[1]].periods[r[2]][r[3]]

\* the lines whose recorded name is the name of roster player `pid`
LinesOf(ms, players, pid) ==
    {r \in LineRefs(ms) :
        \E n \in DOMAIN players :
            players[n].id = pid /\ players[n].name = LineAt(ms, r).player_name}

OrphanLines(ms, players) ==
    {r \in LineRefs(ms) :
        \A n \in DOMAIN players : players[n].name # LineAt(ms, r).player_name}

RECURSIVE SumGoals(_, _)
SumGoals(ms, R) ==
    IF R = {} THEN 0
    ELSE LET r == CHOOSE x \in R : TRUE
         IN LineAt(ms, r).goals + SumGoals(ms, R \ {r})

RECURSIVE SumGametime(_, _)
SumGametime(ms, R) ==
    IF R = {} THEN 0
    ELSE LET r == CHOOSE x \in R : TRUE
         IN LineAt(ms, r).gametime + SumGametime(ms, R \ {r})

\* an active link of the player on a team of the selection
ActiveOnSelection(pid) ==
    \E t \in DOMAIN teams_list :
        /\ div_select # None => div_select \in Range(teams_list[t].divisions)
        /\ team_name_select # NoName => teams_list[t].name = team_name_select
        /\ \E i \in DOMAIN teams_list[t].players :
              /\ teams_list[t].players[i].player = pid
              /\ teams_list[t].players[i].active

\* C7: every sheet get_stats returns is of a player with an active link on
\* a team of the selected division (any team without a division) named by
\* the team filter (any team without a filter), and that player has a line
\* in the filtered matches: players outside that roster and roster players
\* without a line do not appear.
C7_OnlyActiveRosterPlayersWithSheets ==
    AfterStats =>
      \A n \in DOMAIN stats_players :
         /\ ActiveOnSelection(stats_players[n].player)
         /\ LinesOf(match_list_filter, players_list,
                    stats_players[n].player) # {}

\* p1 has lines in the filtered matches but only an inactive link on the
\* selected team A, and is left out while the page shows the selection
C7_Witness ==
    /\ AfterStats
    /\ div_select = 1
    /\ team_name_select = "A"
    /\ teams_list[1].players = <<Link(1, FALSE)>>
    /\ LinesOf(match_list_filter, players_list, 1) # {}
    /\ \A n \in DOMAIN stats_players : stats_players[n].player # 1

\* C8: each returned sheet carries the plain sums of goals and of playing
\* time over all lines of its player in all periods of all filtered
\* matches, and no player has two sheets.
C8_TotalsArePlainSums ==
    AfterStats =>
      /\ \A n \in DOMAIN stats_players :
            LET R == LinesOf(match_list_filter, players_list,
                             stats_players[n].player)
            IN /\ stats_players[n].goals = SumGoals(match_list_filter, R)
               /\ stats_players[n].gametime = SumGametime(match_list_filter, R)
      /\ \A n, q \in DOMAIN stats_players :
            stats_players[n].player = stats_players[q].player => n = q

\* playing times 600 and 900 with goals 1 and 2 in two matches
C8_Witness ==
    /\ AfterStats
    /\ Len(match_list_filter) = 2
    /\ match_list_filter[1].periods = << <<Line("p1", 1, 600)>> >>
    /\ match_list_filter[2].periods = << <<Line("p1", 2, 900)>> >>
    /\ \E n \in DOMAIN stats_players :
          /\ stats_players[n].player = 1
          /\ stats_players[n].gametime = 1500
          /\ stats_players[n].goals = 3

\* C10: no returned sheet has an unresolved player and the returned totals
\* add up to the lines of the returned players alone, so an orphan line
\* adds to nothing; show_missing_stats runs only with the authentication
\* flag set, and then lists every orphan line of the filtered matches.
C10_OrphanSheetsOnlyInAdminList ==
    /\ AfterStats =>
          /\ \A n \in DOMAIN stats_players : stats_players[n].player # None
          /\ SumOver(stats_players, LAMBDA ps : ps.goals) =
                SumGoals(match_list_filter,
                         UNION {LinesOf(match_list_filter, players_list,
                                        stats_players[n].player) :
                                   n \in DOMAIN stats_players})
    /\ missing_called => Authenticated
    /\ (stats_pc = "done" /\ ~Authenticated) =>
          ~missing_called /\ missing_shown = <<>>
    /\ (stats_pc = "done" /\ Authenticated) =>
          /\ missing_called
          /\ \A r \in OrphanLines(match_list_filter, players_list) :
                \E n \in DOMAIN missing_shown :
                   /\ missing_shown[n].m = match_list_filter[r[1]].id
                   /\ missing_shown[n].ps.period_nb = r[2]
                   /\ missing_shown[n].ps.player_name =
                         LineAt(match_list_filter, r).player_name
                   /\ missing_shown[n].ps.player = None
          /\ Len(missing_shown) =
                Cardinality(OrphanLines(match_list_filter, players_list))

\* an orphan line next to a line of an active player, seen by an admin
C10_Witness ==
    /\ stats_pc = "done"
    /\ Authenticated
    /\ OrphanLines(match_list_filter, players_list) # {}
    /\ stats_players # <<>>
    /\ missing_shown # <<>>

-----------------------------------------------------------------------------
(* Claims about the display transform *)

\* C9: with normalization treat_stat returns stat / (gametime / L) for the
\* full game length L = GAME_TIME*2*60 seconds, that is stat * L / gametime
\* (goals 4 over 1800 seconds with 600-second halves: 4 * (600*2) / 1800);
\* without normalization it returns stat itself for every gametime, 0 too.
C9_NormalizationScalesByFullGameLength ==
    display_pc = "done" =>
      /\ (normalized /\ gametime > 0) =>
            /\ treated.den # 0
            /\ treated.num * gametime = stat * (GAME_TIME * 2 * 60) * treated.den
      /\ (normalized /\ gametime = 1800 /\ stat = 4) =>
            treated.num * 1800 = 4 * (600 * 2) * treated.den
      /\ ~normalized => treated = Frac(stat, 1)

C9_Witness ==
    /\ display_pc = "done"
    /\ normalized
    /\ stat = 4
    /\ gametime = 1800
    /\ treated.den # 0
    /\ treated.num * 3 = 8 * treated.den

-----------------------------------------------------------------------------
(* Claims about the name lookups of the relationship steps *)

NamesOf(rows) == {r.name : r \in rows}

NameOfId(rows, id) == (CHOOSE r \in rows : r.id = id).name

\* the first import into a database that never held rows, not cleared since:
\* ids are unique and every link row was written by the current run
FirstImportRunning ==
    /\ imports = 1
    /\ pc # "idle" \/ success = "True"
    /\ db.leagueseason # {}

HasCompleted(step) == \E i \in DOMAIN completed : completed[i] = step

NoSentinelRows(d) ==
    /\ \A r \in d.leagueteamdivisions :
          r.leagueTeamId # -1 /\ r.leagueDivisionId # -1
    /\ \A r \in d.leagueplayerteams :
          r.leaguePlayerId # -1 /\ r.leagueTeamId # -1
    /\ \A r \in d.leaguematchdetail : r.leagueTeamId # -1

\* the sheet rows whose names all belong to rows of the tables, by name
ResolvedTeamDivisions(d, excel) ==
    {<<excel.Teams[i].name, excel.Teams[i].Division_name>> :
        i \in {j \in DOMAIN excel.Teams :
                  /\ excel.Teams[j].name \in NamesOf(d.leagueteam)
                  /\ excel.Teams[j].Division_name \in NamesOf(d.leaguedivision)}}

ResolvedTeamPlayers(d, excel) ==
    {<<excel.Players[i].Player, excel.Players[i].Team, TRUE>> :
        i \in {j \in DOMAIN excel.Players :
                  /\ excel.Players[j].Player \in NamesOf(d.leagueplayer)
                  /\ excel.Players[j].Team \in NamesOf(d.leagueteam)}}
    \cup
    {<<excel.Players[i].Player, excel.Players[i].old_team, FALSE>> :
        i \in {j \in DOMAIN excel.Players :
                  /\ excel.Players[j].Player \in NamesOf(d.leagueplayer)
                  /\ excel.Players[j].old_team \in NamesOf(d.leagueteam)}}

ResolvedMatchDetails(d, excel) ==
    {<<x.id, x.Team1_name, TRUE>> :
        x \in {y \in Range(matches_df(excel)) :
                  y.Team1_name \in NamesOf(d.leagueteam)}}
    \cup
    {<<x.id, x.Team2_name, FALSE>> :
        x \in {y \in Range(matches_df(excel)) :
                  y.Team2_name \in NamesOf(d.leagueteam)}}

HasUnmatchedName(d, excel) ==
    \/ \E i \in DOMAIN excel.Teams :
          excel.Teams[i].Division_name \notin NamesOf(d.leaguedivision)
    \/ \E i \in DOMAIN excel.Players :
          \/ excel.Players[i].Team \notin NamesOf(d.leagueteam)
          \/ excel.Players[i].old_team \notin NamesOf(d.leagueteam)
    \/ \E x \in Range(matches_df(excel)) :
          \/ x.Team1_name \notin NamesOf(d.leagueteam)
          \/ x.Team2_name \notin NamesOf(d.leagueteam)

\* C11: in the team/division, team/player and match-detail steps a name
\* that matches no inserted row raises nothing and yields no link row: no
\* link row of the database ever carries -1 as an id, and once a step has
\* completed the link rows it wrote are exactly the sheet rows whose names
\* all resolve (read back by name).
C11_UnmatchedNamesAreDroppedSilently ==
    /\ NoSentinelRows(db)
    /\ (pc = "team_divisions" /\ HasUnmatchedName(db, excel_file)) =>
          ~team_divisions_raises(db, excel_file)
    /\ (pc = "team_players" /\ HasUnmatchedName(db, excel_file)) =>
          ~team_players_raises(db, excel_file)
    /\ (pc = "match_details" /\ HasUnmatchedName(db, excel_file)) =>
          ~matches_details_raises(db, excel_file)
    /\ (FirstImportRunning /\ HasCompleted("team_divisions")) =>
          {<<NameOfId(db.leagueteam, r.leagueTeamId),
             NameOfId(db.leaguedivision, r.leagueDivisionId)>> :
                r \in db.leagueteamdivisions}
          = ResolvedTeamDivisions(db, excel_file)
    /\ (FirstImportRunning /\ HasCompleted("team_players")) =>
          {<<NameOfId(db.leagueplayer, r.leaguePlayerId),
             NameOfId(db.leagueteam, r.leagueTeamId), r.active>> :
                r \in db.leagueplayerteams}
          = ResolvedTeamPlayers(db, excel_file)
    /\ (FirstImportRunning /\ HasCompleted("match_details")) =>
          {<<r.leagueMatchId, NameOfId(db.leagueteam, r.leagueTeamId), r.home>> :
                r \in db.leaguematchdetail}
          = ResolvedMatchDetails(db, excel_file)

\* an import that succeeded although a division name, a current team name
\* and a second team name matched nothing: only the resolved rows exist
C11_Witness ==
    /\ Returned
    /\ success = "True"
    /\ imports = 1
    /\ excel_file.Teams[1].Division_name = "DX"
    /\ excel_file.Players[1].Team = "ZZ"
    /\ excel_file.Matches[1].Team2_name = "ZZ"
    /\ db.leagueteamdivisions = {}
    /\ Cardinality(db.leagueplayerteams) = 1
    /\ Cardinality(db.leaguematchdetail) = 1

-----------------------------------------------------------------------------
(* Claims about the authentication gate of the database operations page *)

AdminActions == {"export", "clear_league_db", "treat_excel_file"}

\* what a rerun that stopped at the gate leaves behind
BlockedRun ==
    /\ page = "blocked"
    /\ error_shown = "You are not allowed to see this page"
    /\ pc = "idle"
    /\ admin_actions = {}
    /\ attempted = <<>>
    /\ clear_calls = 0
    /\ success = "none"

\* a step that executes an admin action, enters treat_excel_file or
\* writes to the league tables
AdminStep ==
    \/ admin_actions' \ admin_actions # {}
    \/ pc' # "idle"
    \/ db' # db

\* C12: a rerun of the database operations page with the authentication
\* flag absent or false ends at the gate: it shows the blocking message,
\* returns normally, and executes no export query, no clear_league_db and
\* no treat_excel_file; every admin action runs with the flag set.
C12_UnauthenticatedRunReachesNoAdminAction ==
    /\ [](/\ admin_actions \subseteq AdminActions
          /\ page = "blocked" => (~Authenticated /\ BlockedRun)
          /\ page = "admin" => Authenticated
          /\ pc # "idle" => Authenticated)
    /\ [][/\ (~Authenticated /\ authentication_status' = authentication_status)
                => BlockedRun'
          /\ AdminStep => (Authenticated /\ authentication_status' = "True")]_vars

\* a rerun stopped at the gate after a logout, over tables that hold rows
C12_Witness ==
    /\ BlockedRun
    /\ authentication_status = "False"
    /\ session_db # NoHandle
    /\ imports > 0
    /\ RowCount(db) > 0

-----------------------------------------------------------------------------
(* Claims about the unselected division *)

TeamNames == {NoName, "A", "B", "C"}

SliderRanges == {<<0, 0>>, <<0, 1>>, <<1, 1>>}

\* C13: with no division selected filter_matches returns the match list it
\* was given, the same matches in the same order, for every team name and
\* every matchday range: the page's own call and every other call alike.
C13_NoDivisionIsIdentity ==
    /\ (AfterFilter /\ div_select = None) => match_list_filter = matches_list
    /\ \A t \in TeamNames, select \in SliderRanges :
          filter_matches(matches_list, t, None, select) = matches_list

\* matches of two divisions and a range narrowed to one step, all returned
C13_Witness ==
    /\ AfterFilter
    /\ div_select = None
    /\ matchdays_select = <<1, 1>>
    /\ Len(matches_list) >= 2
    /\ \E i, j \in DOMAIN matches_list :
          /\ matches_list[i].leagueDivisionId # matches_list[j].leagueDivisionId
          /\ matches_list[i].matchday # matches_list[j].matchday
    /\ match_list_filter = matches_list

-----------------------------------------------------------------------------
(* Claims about the cached connection *)

\* reruns finished by either page since the session began
HasRun == page \in {"blocked", "admin", "stats"}

\* C14: over every sequence of reruns of the two pages in one session
\* init_connection is called at most once; the first rerun stores its
\* handle under "db" and every later rerun finds that handle there: the
\* stored handle is never replaced and no second connection is made.
C14_ConnectionIsMadeOnce ==
    /\ [](/\ init_connection_calls <= 1
          /\ session_db \in {NoHandle, init_connection(0)}
          /\ session_db = NoHandle <=> init_connection_calls = 0
          /\ HasRun => session_db = init_connection(0))
    /\ [][session_db # NoHandle =>
             /\ session_db' = session_db
             /\ init_connection_calls' = init_connection_calls]_vars

\* the statistics page has run to its end on the handle that an earlier
\* rerun of the database operations page stored before an import
C14_Witness ==
    /\ page = "stats"
    /\ stats_pc = "done"
    /\ imports > 0
    /\ matches_list # <<>>
    /\ session_db = init_connection(0)
    /\ init_connection_calls = 1

-----------------------------------------------------------------------------
(* Claims about the default matchday range *)

\* the rerun showed the default range of a selected division, no team filter
DefaultRangeShown ==
    /\ AfterFilter
    /\ div_select # None
    /\ team_name_select = NoName
    /\ slider_input = <<>>
    /\ matchdays_select = <<0, matchday_max>>

\* C15: for a selected division the default range (0, cutoff) shows only
\* completed rounds: every match that filter_matches returns for the
\* default range without a team filter is a played match, whatever the
\* match list and its pattern of played and unplayed matches.
C15_DefaultRangeShowsOnlyPlayedMatches ==
    DefaultRangeShown =>
       \A i \in DOMAIN match_list_filter :
          Len(match_list_filter[i].periods) > 0

-----------------------------------------------------------------------------
(* Claims about the degenerate selections *)

\* C16: get_max_matchday_stats returns 0 for a selected division that has
\* no match in the list and 1 when no division is selected, whatever the
\* list holds: the page's own call and the function on every reachable list.
C16_DegenerateCutoffs ==
    /\ (AfterMax /\ div_select = None) => matchday_max = 1
    /\ (AfterMax /\ div_select # None
           /\ DivIdx(matches_list, div_select) = {}) => matchday_max = 0
    /\ get_max_matchday_stats(matches_list, None) = 1
    /\ \A division \in {1, 2} :
          DivIdx(matches_list, division) = {} =>
             get_max_matchday_stats(matches_list, division) = 0

\* division 2 selected over a list that holds played and unplayed matches
\* of division 1 only
C16_Witness ==
    /\ AfterMax
    /\ div_select = 2
    /\ DivIdx(matches_list, 2) = {}
    /\ Len(matches_list) >= 3
    /\ UnplayedIdx(matches_list, 1) # {}
    /\ UnplayedIdx(matches_list, 1) # DivIdx(matches_list, 1)
    /\ matchday_max = 0
    /\ get_max_matchday_stats(matches_list, None) = 1

\* the option set of the slider: range(len(matchdays_options_div))
SliderOptions ==
    0..(Len(matchdays_options_div(matches_list, div_select)) - 1)

\* C17: for every selection (a division with matches, a division without
\* matches, no division) both values of the default slider range, 0 and
\* get_max_matchday_stats(matches, division), are members of the slider's
\* option set range(len(matchday options)), so no rerun ends in an error.
C17_DefaultRangeIsAmongTheOptions ==
    /\ AfterMax =>
          /\ 0 \in SliderOptions
          /\ matchday_max \in SliderOptions
          /\ matchday_max = get_max_matchday_stats(matches_list, div_select)
    /\ stats_pc # "error"

====
